---- MODULE Spec2Model ----
(***************************************************************************)
(* Needleman-Wunsch global sequence alignment (src/needleman_wunsch.py).   *)
(*                                                                         *)
(* One engine object (NeedlemanWunsch or NeedlemanWunschAdvanced) is       *)
(* constructed, then callers invoke align, align_with_matrices and the     *)
(* module-level educational_alignment on character sequences.  A call is   *)
(* executed one loop iteration at a time: the matrix fill of               *)
(* _run_needleman_wunsch cell by cell in row-major order, the traceback    *)
(* of _get_aligned_sequences column by column.  A Python string is a       *)
(* sequence of one-character strings; None is the string "None".           *)
(***************************************************************************)
EXTENDS Integers, Sequences, FiniteSets, TLC

VARIABLES
    engine,            \* the aligner object the caller constructed
    engine0,           \* history: the engine's attributes right after construction
    self,              \* the aligner object executing the current call
    op,                \* the operation being executed
    seq1, seq2,        \* its arguments
    score_char1,       \* the arguments char1, char2 of a direct
    score_char2,       \* _score_match_mismatch call, None outside one
    pc,                \* position inside the call
    score_matrix,      \* local of _run_needleman_wunsch
    traceback_matrix,  \* local of _run_needleman_wunsch
    i, j,              \* loop counters (fill loop, then traceback loop)
    seq1_aligned,      \* local list of _get_aligned_sequences (built backwards)
    seq2_aligned,      \* local list of _get_aligned_sequences (built backwards)
    result,            \* the value returned to the caller, NoResult when none
    prev               \* history: what the previous call returned, while the
                       \* current call repeats its inputs

vars == <<engine, engine0, self, op, seq1, seq2, score_char1, score_char2,
          pc, score_matrix,
          traceback_matrix, i, j, seq1_aligned, seq2_aligned, result, prev>>

-----------------------------------------------------------------------------
(* Bounds of the model *)

\* longest input sequence
MaxLen == 2

\* symbols of the input sequences; "-" is the character align uses as gap marker
SeqAlphabet == {"A", "G", "-"}

SeqsUpTo(n) == UNION {[1..k -> SeqAlphabet] : k \in 0..n}

Inputs == SeqsUpTo(MaxLen)

\* the symbols the scoring function is applied to: the four nucleotides in
\* both cases
ScoreAlphabet == {"A", "T", "G", "C", "a", "t", "g", "c"}

None == "None"
NoResult == <<>>
NoMatrix == <<>>

-----------------------------------------------------------------------------
(* Construction *)

NeedlemanWunsch(match_score, mismatch_score, gap_penalty) ==
    [class |-> "NeedlemanWunsch",
     match_score |-> match_score,
     mismatch_score |-> mismatch_score,
     gap_penalty |-> gap_penalty]

NeedlemanWunschAdvanced(match_score, transition_penalty, transversion_penalty, gap_penalty) ==
    [class |-> "NeedlemanWunschAdvanced",
     match_score |-> match_score,
     mismatch_score |-> transition_penalty,
     gap_penalty |-> gap_penalty,
     transition_penalty |-> transition_penalty,
     transversion_penalty |-> transversion_penalty]

\* the engines a caller constructs: the two classes' defaults and the
\* parameter sets of the repository's tests
Engines ==
    { NeedlemanWunsch(2, -1, -2),
      NeedlemanWunsch(1, -1, -2),
      NeedlemanWunsch(1, -1, -1),
      NeedlemanWunschAdvanced(2, -1, -2, -1) }

\* the aligner educational_alignment builds from its default arguments
EducationalAligner == NeedlemanWunsch(1, -1, -2)

-----------------------------------------------------------------------------
(* Scoring policies *)

\* str.upper on one character
Upper(c) ==
    CASE c = "a" -> "A"
      [] c = "c" -> "C"
      [] c = "g" -> "G"
      [] c = "t" -> "T"
      [] OTHER -> c

\* mutant of FlatScore: the two scores are returned the wrong way round
FlatScore_Exchanged(slf, char1, char2) ==
    IF char1 = char2 THEN slf.mismatch_score ELSE slf.match_score

FlatScore(slf, char1, char2) ==
    IF char1 = char2 THEN slf.match_score ELSE slf.mismatch_score

\* mutant of transitions: the purine and pyrimidine pairs in one order only
transitions_OneWay == {<<"A", "G">>, <<"C", "T">>}

transitions == {<<"A", "G">>, <<"G", "A">>, <<"C", "T">>, <<"T", "C">>}

AdvancedScore(slf, char1, char2) ==
    IF char1 = char2
    THEN slf.match_score
    ELSE LET nucleotide_pair == <<Upper(char1), Upper(char2)>>
         IN  IF nucleotide_pair \in transitions
             THEN slf.transition_penalty
             ELSE slf.transversion_penalty

\* self._score_match_mismatch: the method of the object's class
score_match_mismatch(slf, char1, char2) ==
    IF slf.class = "NeedlemanWunschAdvanced"
    THEN AdvancedScore(slf, char1, char2)
    ELSE FlatScore(slf, char1, char2)

-----------------------------------------------------------------------------
(* Matrix construction *)

\* mutant of Max3: the left candidate is left out of the maximum
Max3_WithoutLeft(a, b, c) ==
    IF a >= b THEN a ELSE b

Max3(a, b, c) ==
    IF a >= b /\ a >= c THEN a ELSE IF b >= c THEN b ELSE c

\* mutant of initialize_score_matrix: the first column is left at 0
initialize_score_matrix_RowOnly(slf, seq1_length, seq2_length) ==
    [r \in 0..seq1_length |->
        [c \in 0..seq2_length |->
            IF r = 0 /\ c >= 1 THEN c * slf.gap_penalty ELSE 0]]

\* mutant of initialize_score_matrix: row zero starts its gap run one cell late
initialize_score_matrix_OffByOne(slf, seq1_length, seq2_length) ==
    [r \in 0..seq1_length |->
        [c \in 0..seq2_length |->
            IF r = 0 /\ c >= 1 THEN (c - 1) * slf.gap_penalty
            ELSE IF c = 0 /\ r >= 1 THEN r * slf.gap_penalty
            ELSE 0]]

initialize_score_matrix(slf, seq1_length, seq2_length) ==
    [r \in 0..seq1_length |->
        [c \in 0..seq2_length |->
            IF r = 0 /\ c >= 1 THEN c * slf.gap_penalty
            ELSE IF c = 0 /\ r >= 1 THEN r * slf.gap_penalty
            ELSE 0]]

initialize_traceback_matrix(seq1_length, seq2_length) ==
    [r \in 0..seq1_length |->
        [c \in 0..seq2_length |->
            IF c = 0 /\ r >= 1 THEN "U"
            ELSE IF r = 0 /\ c >= 1 THEN "L"
            ELSE None]]

\* mutant of Direction: the tags of the two gap moves are exchanged
Direction_UpLeftExchanged(diagonal_score, up_score, left_score) ==
    LET max_score == Max3(diagonal_score, up_score, left_score)
    IN  IF max_score = diagonal_score THEN "D"
        ELSE IF max_score = up_score THEN "L"
        ELSE "U"

\* mutant of Direction: the up candidate is compared before the diagonal one
Direction_UpFirst(diagonal_score, up_score, left_score) ==
    LET max_score == Max3(diagonal_score, up_score, left_score)
    IN  IF max_score = up_score THEN "U"
        ELSE IF max_score = diagonal_score THEN "D"
        ELSE "L"

\* mutant of Direction: the left candidate is compared before the diagonal one
Direction_LeftFirst(diagonal_score, up_score, left_score) ==
    LET max_score == Max3(diagonal_score, up_score, left_score)
    IN  IF max_score = left_score THEN "L"
        ELSE IF max_score = diagonal_score THEN "D"
        ELSE "U"

\* the direction recorded for a cell, from its three candidates
Direction(diagonal_score, up_score, left_score) ==
    LET max_score == Max3(diagonal_score, up_score, left_score)
    IN  IF max_score = diagonal_score THEN "D"
        ELSE IF max_score = up_score THEN "U"
        ELSE "L"

\* mutant of FillCellOf: the left candidate is read from the cell being
\* filled, which does not hold its value yet
FillCellOf_LeftFromSelf(slf, s1, s2, S, T, r, c) ==
    LET char1 == s1[r]
        char2 == s2[c]
        diagonal_score == S[r-1][c-1] + score_match_mismatch(slf, char1, char2)
        up_score == S[r-1][c] + slf.gap_penalty
        left_score == S[r][c] + slf.gap_penalty
        max_score == Max3(diagonal_score, up_score, left_score)
    IN  [score_matrix |-> [S EXCEPT ![r][c] = max_score],
         traceback_matrix |->
             [T EXCEPT ![r][c] = Direction(diagonal_score, up_score, left_score)]]

\* one iteration of the fill loop: cell (r, c) of both matrices
FillCellOf(slf, s1, s2, S, T, r, c) ==
    LET char1 == s1[r]
        char2 == s2[c]
        diagonal_score == S[r-1][c-1] + score_match_mismatch(slf, char1, char2)
        up_score == S[r-1][c] + slf.gap_penalty
        left_score == S[r][c-1] + slf.gap_penalty
        max_score == Max3(diagonal_score, up_score, left_score)
    IN  [score_matrix |-> [S EXCEPT ![r][c] = max_score],
         traceback_matrix |->
             [T EXCEPT ![r][c] = Direction(diagonal_score, up_score, left_score)]]

\* the cell the fill loop visits after (r, c); <<0, 0>> when the loops are over
NextCell(s1, s2, r, c) ==
    IF c < Len(s2) THEN <<r, c + 1>>
    ELSE IF r < Len(s1) THEN <<r + 1, 1>>
    ELSE <<0, 0>>

RECURSIVE FillFrom(_, _, _, _, _, _, _)
FillFrom(slf, s1, s2, S, T, r, c) ==
    IF r = 0 THEN [score_matrix |-> S, traceback_matrix |-> T]
    ELSE LET m == FillCellOf(slf, s1, s2, S, T, r, c)
             n == NextCell(s1, s2, r, c)
         IN  FillFrom(slf, s1, s2, m.score_matrix, m.traceback_matrix, n[1], n[2])

\* _run_needleman_wunsch as a whole
run_needleman_wunsch(slf, s1, s2) ==
    LET S == initialize_score_matrix(slf, Len(s1), Len(s2))
        T == initialize_traceback_matrix(Len(s1), Len(s2))
    IN  IF Len(s1) >= 1 /\ Len(s2) >= 1
        THEN FillFrom(slf, s1, s2, S, T, 1, 1)
        ELSE [score_matrix |-> S, traceback_matrix |-> T]

-----------------------------------------------------------------------------
(* Traceback *)

\* the three moves of the traceback on the walk state w
\* mutant of MoveLeft: the gap marker is appended to both lists
MoveLeft_GapOverGap(s1, s2, w) ==
    [i |-> w.i, j |-> w.j - 1,
     seq1_aligned |-> Append(w.seq1_aligned, "-"),
     seq2_aligned |-> Append(w.seq2_aligned, "-")]

\* left: gap in seq1, consume seq2[j-1]
MoveLeft(s1, s2, w) ==
    [i |-> w.i, j |-> w.j - 1,
     seq1_aligned |-> Append(w.seq1_aligned, "-"),
     seq2_aligned |-> Append(w.seq2_aligned, s2[w.j])]

\* mutant of MoveUp: i is not decremented
MoveUp_KeepsI(s1, s2, w) ==
    [i |-> w.i, j |-> w.j,
     seq1_aligned |-> Append(w.seq1_aligned, s1[w.i]),
     seq2_aligned |-> Append(w.seq2_aligned, "-")]

\* up: consume seq1[i-1], gap in seq2
MoveUp(s1, s2, w) ==
    [i |-> w.i - 1, j |-> w.j,
     seq1_aligned |-> Append(w.seq1_aligned, s1[w.i]),
     seq2_aligned |-> Append(w.seq2_aligned, "-")]

\* mutant of MoveDiagonal: j is not decremented
MoveDiagonal_KeepsJ(s1, s2, w) ==
    [i |-> w.i - 1, j |-> w.j,
     seq1_aligned |-> Append(w.seq1_aligned, s1[w.i]),
     seq2_aligned |-> Append(w.seq2_aligned, s2[w.j])]

\* diagonal: consume both
MoveDiagonal(s1, s2, w) ==
    [i |-> w.i - 1, j |-> w.j - 1,
     seq1_aligned |-> Append(w.seq1_aligned, s1[w.i]),
     seq2_aligned |-> Append(w.seq2_aligned, s2[w.j])]

\* mutant of MoveUp: the two appends go to the wrong lists
MoveUp_ListsSwapped(s1, s2, w) ==
    [i |-> w.i - 1, j |-> w.j,
     seq1_aligned |-> Append(w.seq1_aligned, "-"),
     seq2_aligned |-> Append(w.seq2_aligned, s1[w.i])]

\* mutant of MoveLeft: the gap marker is not appended to seq1_aligned
MoveLeft_NoGap(s1, s2, w) ==
    [i |-> w.i, j |-> w.j - 1,
     seq1_aligned |-> w.seq1_aligned,
     seq2_aligned |-> Append(w.seq2_aligned, s2[w.j])]

\* mutant of TracebackStepOf: an UP cell is walked with the lists swapped
TracebackStepOf_UpListsSwapped(T, s1, s2, w) ==
    IF w.i = 0 THEN MoveLeft(s1, s2, w)
    ELSE IF w.j = 0 THEN MoveUp_ListsSwapped(s1, s2, w)
    ELSE LET direction == T[w.i][w.j]
         IN  IF direction = "D" THEN MoveDiagonal(s1, s2, w)
             ELSE IF direction = "U" THEN MoveUp_ListsSwapped(s1, s2, w)
             ELSE IF direction = "L" THEN MoveLeft(s1, s2, w)
             ELSE w

\* mutant of TracebackStepOf: a LEFT move forgets the gap marker
TracebackStepOf_LeftNoGap(T, s1, s2, w) ==
    IF w.i = 0 THEN MoveLeft_NoGap(s1, s2, w)
    ELSE IF w.j = 0 THEN MoveUp(s1, s2, w)
    ELSE LET direction == T[w.i][w.j]
         IN  IF direction = "D" THEN MoveDiagonal(s1, s2, w)
             ELSE IF direction = "U" THEN MoveUp(s1, s2, w)
             ELSE IF direction = "L" THEN MoveLeft_NoGap(s1, s2, w)
             ELSE w

\* one iteration of the traceback loop on the walk state w; a cell without
\* a direction tag matches no branch and leaves the walk where it is
TracebackStepOf(T, s1, s2, w) ==
    IF w.i = 0 THEN MoveLeft(s1, s2, w)
    ELSE IF w.j = 0 THEN MoveUp(s1, s2, w)
    ELSE LET direction == T[w.i][w.j]
         IN  IF direction = "D" THEN MoveDiagonal(s1, s2, w)
             ELSE IF direction = "U" THEN MoveUp(s1, s2, w)
             ELSE IF direction = "L" THEN MoveLeft(s1, s2, w)
             ELSE w

\* list[::-1]
Reverse(s) == [k \in 1..Len(s) |-> s[Len(s) + 1 - k]]

RECURSIVE WalkFrom(_, _, _, _)
WalkFrom(T, s1, s2, w) ==
    IF w.i > 0 \/ w.j > 0
    THEN WalkFrom(T, s1, s2, TracebackStepOf(T, s1, s2, w))
    ELSE <<Reverse(w.seq1_aligned), Reverse(w.seq2_aligned)>>

\* _get_aligned_sequences as a whole
get_aligned_sequences(T, s1, s2) ==
    WalkFrom(T, s1, s2,
             [i |-> Len(s1), j |-> Len(s2),
              seq1_aligned |-> <<>>, seq2_aligned |-> <<>>])

\* the body shared by align (after its validation) and align_with_matrices
AlignBody(slf, s1, s2) ==
    LET m == run_needleman_wunsch(slf, s1, s2)
        a == get_aligned_sequences(m.traceback_matrix, s1, s2)
    IN  [seq1_aligned |-> a[1],
         seq2_aligned |-> a[2],
         score |-> m.score_matrix[Len(s1)][Len(s2)],
         score_matrix |-> m.score_matrix,
         traceback_matrix |-> m.traceback_matrix]

\* align on two non-empty sequences: the tuple it returns
align(slf, s1, s2) ==
    LET r == AlignBody(slf, s1, s2)
    IN  <<r.seq1_aligned, r.seq2_aligned, r.score>>

-----------------------------------------------------------------------------
(* The calls, step by step *)

Ops == {"align", "align_with_matrices", "educational_alignment"}

\* (aligned1, aligned2, score) of a returned value, tuple or dict
Triple(o, res) ==
    IF o = "align" THEN res
    ELSE <<res.seq1_aligned, res.seq2_aligned, res.score>>

Init ==
    /\ engine \in Engines
    /\ engine0 = engine
    /\ self = engine
    /\ op = None
    /\ seq1 = <<>>
    /\ seq2 = <<>>
    /\ score_char1 = None
    /\ score_char2 = None
    /\ pc = "idle"
    /\ score_matrix = NoMatrix
    /\ traceback_matrix = NoMatrix
    /\ i = 0
    /\ j = 0
    /\ seq1_aligned = <<>>
    /\ seq2_aligned = <<>>
    /\ result = NoResult
    /\ prev = NoResult

\* a caller enters operation o of aligner slf with arguments s1, s2.  The
\* locals are assigned by the statements that create them (InitMatrices,
\* BeginTraceback); until then they hold whatever the last call left, so a
\* call that read them before assigning them would show
Enter(o, slf, s1, s2, entered, before) ==
    /\ op' = o
    /\ self' = slf
    /\ seq1' = s1
    /\ seq2' = s2
    /\ pc' = entered
    /\ result' = NoResult
    /\ prev' = before
    /\ UNCHANGED <<score_char1, score_char2, engine, engine0,
                   score_matrix, traceback_matrix, i, j,
                   seq1_aligned, seq2_aligned>>

\* mutant of AlignEnter: "and" for "or" in the validation
AlignEnter_BothEmpty(s1, s2, before) ==
    IF Len(s1) = 0 /\ Len(s2) = 0
    THEN Enter("align", engine, s1, s2, "raised", before)
    ELSE Enter("align", engine, s1, s2, "run", before)

\* engine.align(s1, s2): the validation, then the body
AlignEnter(s1, s2, before) ==
    IF Len(s1) = 0 \/ Len(s2) = 0
    THEN Enter("align", engine, s1, s2, "raised", before)
    ELSE Enter("align", engine, s1, s2, "run", before)

\* engine.align_with_matrices(s1, s2): no validation
AlignWithMatricesEnter(s1, s2, before) ==
    Enter("align_with_matrices", engine, s1, s2, "run", before)

\* educational_alignment(s1, s2, verbose=False): a fresh aligner with the
\* default arguments, then its align_with_matrices
EducationalEnter(s1, s2, before) ==
    Enter("educational_alignment", EducationalAligner, s1, s2, "run", before)

AlignCall ==
    /\ pc = "idle"
    /\ \E s1 \in Inputs, s2 \in Inputs : AlignEnter(s1, s2, NoResult)

AlignWithMatricesCall ==
    /\ pc = "idle"
    /\ \E s1 \in Inputs, s2 \in Inputs : AlignWithMatricesEnter(s1, s2, NoResult)

EducationalCall ==
    /\ pc = "idle"
    /\ \E s1 \in Inputs, s2 \in Inputs : EducationalEnter(s1, s2, NoResult)

\* the caller, holding the value a call returned, calls again with the same
\* two sequences: any operation whose aligner has the scoring parameters of
\* the one that served the first call
RepeatCall(o) ==
    /\ pc = "done"
    /\ CASE o = "align" ->
              engine = self /\ AlignEnter(seq1, seq2, Triple(op, result))
         [] o = "align_with_matrices" ->
              engine = self /\ AlignWithMatricesEnter(seq1, seq2, Triple(op, result))
         [] o = "educational_alignment" ->
              EducationalAligner = self
              /\ EducationalEnter(seq1, seq2, Triple(op, result))

\* a caller applies the scoring function of the engine to two symbols
\* (the tests call _score_match_mismatch directly)
ScoreCall ==
    /\ pc = "idle"
    /\ \E c1 \in ScoreAlphabet, c2 \in ScoreAlphabet :
          /\ score_char1' = c1
          /\ score_char2' = c2
          /\ result' = score_match_mismatch(engine, c1, c2)
    /\ op' = "_score_match_mismatch"
    /\ self' = engine
    /\ pc' = "scored"
    /\ UNCHANGED <<engine, engine0, seq1, seq2, score_matrix, traceback_matrix,
                   i, j, seq1_aligned, seq2_aligned, prev>>

\* the caller is done with the outcome of a call (a value or the ValueError)
Finish ==
    /\ pc \in {"done", "raised", "scored"}
    /\ pc' = "idle"
    /\ op' = None
    /\ self' = engine
    /\ seq1' = <<>>
    /\ seq2' = <<>>
    /\ score_matrix' = NoMatrix
    /\ traceback_matrix' = NoMatrix
    /\ i' = 0
    /\ j' = 0
    /\ seq1_aligned' = <<>>
    /\ seq2_aligned' = <<>>
    /\ result' = NoResult
    /\ prev' = NoResult
    /\ score_char1' = None
    /\ score_char2' = None
    /\ UNCHANGED <<engine, engine0>>

\* _run_needleman_wunsch up to its fill loop
InitMatrices ==
    /\ pc = "run"
    /\ score_matrix' = initialize_score_matrix(self, Len(seq1), Len(seq2))
    /\ traceback_matrix' = initialize_traceback_matrix(Len(seq1), Len(seq2))
    /\ IF Len(seq1) >= 1 /\ Len(seq2) >= 1
       THEN pc' = "fill" /\ i' = 1 /\ j' = 1
       ELSE pc' = "filled" /\ UNCHANGED <<i, j>>
    /\ UNCHANGED <<score_char1, score_char2, engine, engine0,
                   self, op, seq1, seq2, seq1_aligned,
                   seq2_aligned, result, prev>>

\* one iteration of the fill loop
FillCell ==
    /\ pc = "fill"
    /\ LET m == FillCellOf(self, seq1, seq2, score_matrix, traceback_matrix, i, j)
           n == NextCell(seq1, seq2, i, j)
       IN  /\ score_matrix' = m.score_matrix
           /\ traceback_matrix' = m.traceback_matrix
           /\ IF n = <<0, 0>>
              THEN pc' = "filled" /\ UNCHANGED <<i, j>>
              ELSE pc' = "fill" /\ i' = n[1] /\ j' = n[2]
    /\ UNCHANGED <<score_char1, score_char2, engine, engine0,
                   self, op, seq1, seq2, seq1_aligned,
                   seq2_aligned, result, prev>>

\* mutant of BeginTraceback: the two lists outlive the call (as attributes
\* or mutable default arguments would) and are not emptied
BeginTraceback_KeepsLists ==
    /\ pc = "filled"
    /\ i' = Len(seq1)
    /\ j' = Len(seq2)
    /\ pc' = "trace"
    /\ UNCHANGED <<score_char1, score_char2, engine, engine0,
                   self, op, seq1, seq2, score_matrix,
                   traceback_matrix, seq1_aligned, seq2_aligned, result, prev>>

\* _get_aligned_sequences up to its loop
BeginTraceback ==
    /\ pc = "filled"
    /\ i' = Len(seq1)
    /\ j' = Len(seq2)
    /\ seq1_aligned' = <<>>
    /\ seq2_aligned' = <<>>
    /\ pc' = "trace"
    /\ UNCHANGED <<score_char1, score_char2, engine, engine0,
                   self, op, seq1, seq2, score_matrix,
                   traceback_matrix, result, prev>>

\* one iteration of the traceback loop
TracebackStep ==
    /\ pc = "trace"
    /\ i > 0 \/ j > 0
    /\ LET w == TracebackStepOf(traceback_matrix, seq1, seq2,
                    [i |-> i, j |-> j, seq1_aligned |-> seq1_aligned,
                     seq2_aligned |-> seq2_aligned])
       IN  /\ i' = w.i
           /\ j' = w.j
           /\ seq1_aligned' = w.seq1_aligned
           /\ seq2_aligned' = w.seq2_aligned
    /\ UNCHANGED <<score_char1, score_char2, engine, engine0,
                   self, op, seq1, seq2, pc, score_matrix,
                   traceback_matrix, result, prev>>

\* mutant of AlignReturnValue: the score is read one cell off the corner
AlignReturnValue_OffByOne(a1, a2, S, s1, s2) ==
    <<a1, a2, S[Len(s1) - 1][Len(s2) - 1]>>

\* the value align builds from what the two helpers returned
AlignReturnValue(a1, a2, S, s1, s2) ==
    <<a1, a2, S[Len(s1)][Len(s2)]>>

\* the dict align_with_matrices builds
MatricesReturnValue(a1, a2, S, T, s1, s2) ==
    [seq1_aligned |-> a1,
     seq2_aligned |-> a2,
     score |-> S[Len(s1)][Len(s2)],
     score_matrix |-> S,
     traceback_matrix |-> T]

\* the traceback loop is over: reverse and join the lists, return
Return ==
    /\ pc = "trace"
    /\ ~(i > 0 \/ j > 0)
    /\ LET a1 == Reverse(seq1_aligned)
           a2 == Reverse(seq2_aligned)
       IN  result' = IF op = "align"
                     THEN AlignReturnValue(a1, a2, score_matrix, seq1, seq2)
                     ELSE MatricesReturnValue(a1, a2, score_matrix,
                                              traceback_matrix, seq1, seq2)
    /\ pc' = "done"
    /\ UNCHANGED <<score_char1, score_char2, engine, engine0,
                   self, op, seq1, seq2, score_matrix,
                   traceback_matrix, i, j, seq1_aligned, seq2_aligned, prev>>

Next ==
    \/ AlignCall
    \/ AlignWithMatricesCall
    \/ EducationalCall
    \/ ScoreCall
    \/ \E o \in Ops : RepeatCall(o)
    \/ Finish
    \/ InitMatrices
    \/ FillCell
    \/ BeginTraceback
    \/ TracebackStep
    \/ Return

Spec == Init /\ [][Next]_vars

-----------------------------------------------------------------------------
(* The reference examples of the test suite *)

WHY == <<"W", "H", "Y">>
WHAT == <<"W", "H", "A", "T">>
GCATGCT == <<"G", "C", "A", "T", "G", "C", "T">>
GATTACA == <<"G", "A", "T", "T", "A", "C", "A">>

\* test_assignment_example_1 and test_assignment_example_3: the aligner
\* each constructs and the two sequences it aligns
Examples ==
    { [aligner |-> NeedlemanWunsch(1, -1, -2), seq1 |-> WHY, seq2 |-> WHAT],
      [aligner |-> NeedlemanWunsch(1, -1, -1), seq1 |-> GCATGCT,
       seq2 |-> GATTACA] }

\* a caller runs one of the reference examples
ExampleCall ==
    /\ pc = "idle"
    /\ \E e \in Examples :
          /\ engine = e.aligner
          /\ AlignEnter(e.seq1, e.seq2, NoResult)

NextWithExamples ==
    \/ Next
    \/ ExampleCall

\* the program with callers that also run the reference examples
SpecWithExamples == Init /\ [][NextWithExamples]_vars

-----------------------------------------------------------------------------
(* Properties *)

\* a call has returned a value
Returned == pc = "done"

\* align has returned its tuple (its inputs are then non-empty)
AlignReturned == pc = "done" /\ op = "align"

\* str.replace('-', ''), as the tests strip the gap markers
StripGaps(s) == SelectSeq(s, LAMBDA c : c # "-")

\* the sequence holds no gap marker of its own
GapFree(s) == \A k \in 1..Len(s) : s[k] # "-"

HasGap(s) == ~GapFree(s)

\* C1 as stated: for all non-empty inputs, removing every gap marker from
\* the first returned string gives seq1 and from the second gives seq2.
C1_RoundTripAnyInput ==
    AlignReturned =>
        /\ StripGaps(result[1]) = seq1
        /\ StripGaps(result[2]) = seq2

\* C1 amended: round trip for every input that itself holds no gap marker:
\* removing the gap markers from the first returned string gives seq1 when
\* seq1 is free of "-", and from the second gives seq2 when seq2 is.
C1_RoundTrip ==
    AlignReturned =>
        /\ GapFree(seq1) => StripGaps(result[1]) = seq1
        /\ GapFree(seq2) => StripGaps(result[2]) = seq2

\* align returned gapped strings for two marker-free inputs
C1_Witness ==
    /\ AlignReturned
    /\ GapFree(seq1) /\ GapFree(seq2)
    /\ Len(seq1) = 2
    /\ HasGap(result[1]) /\ HasGap(result[2])
    /\ StripGaps(result[1]) = seq1

\* C2: the two aligned strings align returns have the same length.
C2_EqualLength ==
    AlignReturned => Len(result[1]) = Len(result[2])

\* inputs of different lengths came back padded to one length
C2_Witness ==
    /\ AlignReturned
    /\ GapFree(seq1) /\ GapFree(seq2)
    /\ Len(seq1) < Len(seq2)
    /\ Len(result[1]) = Len(result[2])
    /\ Len(result[1]) > Len(seq1)

\* --- global alignments, enumerated ---
\* a column is a symbol pair, a symbol of seq1 over a gap, or a gap over a
\* symbol of seq2; never a gap over a gap
PairColumn(a, b) == [kind |-> "pair", top |-> a, bottom |-> b]
TopColumn(a) == [kind |-> "top", top |-> a]
BottomColumn(b) == [kind |-> "bottom", bottom |-> b]

\* all global alignments of the first r symbols of s1 with the first c
\* symbols of s2, as sequences of columns
RECURSIVE Alignments(_, _, _, _)
Alignments(s1, s2, r, c) ==
    IF r = 0 /\ c = 0 THEN {<<>>}
    ELSE (IF r > 0 /\ c > 0
          THEN {Append(a, PairColumn(s1[r], s2[c])) :
                    a \in Alignments(s1, s2, r - 1, c - 1)}
          ELSE {})
         \cup
         (IF r > 0
          THEN {Append(a, TopColumn(s1[r])) : a \in Alignments(s1, s2, r - 1, c)}
          ELSE {})
         \cup
         (IF c > 0
          THEN {Append(a, BottomColumn(s2[c])) : a \in Alignments(s1, s2, r, c - 1)}
          ELSE {})

ColumnScore(slf, col) ==
    IF col.kind = "pair"
    THEN score_match_mismatch(slf, col.top, col.bottom)
    ELSE slf.gap_penalty

\* the sum of the scores of the first k columns of alignment a
RECURSIVE ColumnsScore(_, _, _)
ColumnsScore(slf, a, k) ==
    IF k = 0 THEN 0
    ELSE ColumnsScore(slf, a, k - 1) + ColumnScore(slf, a[k])

AlignmentScore(slf, a) == ColumnsScore(slf, a, Len(a))

MaxOf(scores) == CHOOSE x \in scores : \A y \in scores : x >= y

\* the best score any global alignment of the first r symbols of s1 with
\* the first c symbols of s2 reaches
OptimalScore(slf, s1, s2, r, c) ==
    MaxOf({AlignmentScore(slf, a) : a \in Alignments(s1, s2, r, c)})

\* C3: once _run_needleman_wunsch has filled the matrix, every cell (r, c)
\* holds the maximum score over all global alignments of the first r symbols
\* of seq1 with the first c symbols of seq2, and the score align returns is
\* the maximum over all global alignments of seq1 with seq2.
C3_Optimal ==
    /\ pc = "filled" =>
          \A r \in 0..Len(seq1), c \in 0..Len(seq2) :
              score_matrix[r][c] = OptimalScore(self, seq1, seq2, r, c)
    /\ AlignReturned =>
          result[3] = OptimalScore(self, seq1, seq2, Len(seq1), Len(seq2))

\* align returned the optimum of two length-2 inputs, reached through a gap
\* move at the corner, with worse alignments existing
C3_Witness ==
    /\ AlignReturned
    /\ GapFree(seq1) /\ GapFree(seq2)
    /\ Len(seq1) = 2 /\ Len(seq2) = 2
    /\ traceback_matrix[2][2] # "D"
    /\ result[3] = OptimalScore(self, seq1, seq2, 2, 2)
    /\ \E a \in Alignments(seq1, seq2, 2, 2) : AlignmentScore(self, a) < result[3]

\* --- scoring a returned pair of strings column by column ---
\* a column with exactly one gap marker costs gap_penalty, any other column
\* scores its two symbols
ReturnedColumnScore(slf, x, y) ==
    IF (x = "-") # (y = "-")
    THEN slf.gap_penalty
    ELSE score_match_mismatch(slf, x, y)

RECURSIVE ReturnedColumnsScore(_, _, _, _)
ReturnedColumnsScore(slf, a1, a2, k) ==
    IF k = 0 THEN 0
    ELSE ReturnedColumnsScore(slf, a1, a2, k - 1)
         + ReturnedColumnScore(slf, a1[k], a2[k])

\* the two returned strings, scored column by column, sum to the returned score
AchievesScore(slf, res) ==
    /\ Len(res[1]) = Len(res[2])
    /\ ReturnedColumnsScore(slf, res[1], res[2], Len(res[1])) = res[3]

\* C4 as stated: for all non-empty inputs the returned strings, scored
\* column by column, sum to the returned score.
C4_AchievesAnyInput ==
    AlignReturned => AchievesScore(self, result)

\* C4 amended: for all non-empty inputs that hold no gap marker of their
\* own, the returned strings, scored column by column (score(a,b) for two
\* symbols, gap_penalty for a column with one gap marker), sum to the
\* returned score.
C4_Achieves ==
    AlignReturned /\ GapFree(seq1) /\ GapFree(seq2) =>
        AchievesScore(self, result)

\* a returned alignment of marker-free inputs with a gap column and a
\* mismatch column
C4_Witness ==
    /\ AlignReturned
    /\ GapFree(seq1) /\ GapFree(seq2)
    /\ HasGap(result[1])
    /\ \E k \in 1..Len(result[1]) :
           /\ result[1][k] # result[2][k]
           /\ result[1][k] # "-" /\ result[2][k] # "-"
    /\ AchievesScore(self, result)

\* C5: for non-empty inputs, the score align returns, and the 'score' entry
\* align_with_matrices returns, is the bottom-right cell of the score matrix
\* built for the two sequences.
C5_ScoreConsistent ==
    /\ Returned
    /\ op \in {"align", "align_with_matrices"}
    /\ Len(seq1) >= 1 /\ Len(seq2) >= 1
    => /\ Triple(op, result)[3] = score_matrix[Len(seq1)][Len(seq2)]
       /\ op = "align_with_matrices" =>
              result.score = result.score_matrix[Len(seq1)][Len(seq2)]

\* align_with_matrices returned the corner cell, which differs from its
\* diagonal neighbour
C5_Witness ==
    /\ Returned
    /\ GapFree(seq1) /\ GapFree(seq2)
    /\ op = "align_with_matrices"
    /\ Len(seq1) = 2 /\ Len(seq2) = 2
    /\ result.score = result.score_matrix[2][2]
    /\ result.score = score_matrix[2][2]
    /\ result.score # score_matrix[1][1]

\* C6: align raises ValueError exactly when seq1 or seq2 is empty, and then
\* returns nothing; for two non-empty sequences it does not raise.
C6_RejectsEmpty ==
    op = "align" =>
        /\ pc = "raised" <=> (Len(seq1) = 0 \/ Len(seq2) = 0)
        /\ pc = "raised" => result = NoResult

\* align raised on an empty second argument
C6_Witness ==
    /\ op = "align"
    /\ pc = "raised"
    /\ Len(seq1) = 2 /\ Len(seq2) = 0
    /\ result = NoResult

\* C7: align_with_matrices and educational_alignment validate as align
\* does: with an empty input they never return an alignment, a score and
\* matrices.
C7_MatricesRejectEmpty ==
    ~ /\ Returned
      /\ op \in {"align_with_matrices", "educational_alignment"}
      /\ Len(seq1) = 0 \/ Len(seq2) = 0

\* C8: align(seq1, seq2) and align(seq2, seq1) return equal scores, under
\* the flat and the transition/transversion policy.
C8_ScoreSymmetric ==
    AlignReturned => result[3] = align(self, seq2, seq1)[3]

\* the advanced policy on two different inputs of different lengths
C8_Witness ==
    /\ AlignReturned
    /\ GapFree(seq1) /\ GapFree(seq2)
    /\ self.class = "NeedlemanWunschAdvanced"
    /\ Len(seq1) = 1 /\ Len(seq2) = 2
    /\ seq2[1] # seq1[1] /\ seq2[2] # seq1[1]
    /\ result[3] = align(self, seq2, seq1)[3]

\* some interior cell has its up and left candidates tied strictly above its
\* diagonal candidate
UpLeftTie(slf, s1, s2, S) ==
    \E r \in 1..Len(s1), c \in 1..Len(s2) :
        LET diagonal_score == S[r-1][c-1] + score_match_mismatch(slf, s1[r], s2[c])
            up_score == S[r-1][c] + slf.gap_penalty
            left_score == S[r][c-1] + slf.gap_penalty
        IN  up_score = left_score /\ up_score > diagonal_score

\* C9 as stated: align(seq2, seq1) returns the strings of align(seq1, seq2)
\* swapped, and the same score.
C9_SwappedAlways ==
    AlignReturned =>
        align(self, seq2, seq1) = <<result[2], result[1], result[3]>>

\* C9 amended: align(seq2, seq1) returns the same score, and the aligned
\* strings swapped provided no interior cell of the score matrix has its up
\* and left candidates tied strictly above the diagonal candidate.
C9_SwappedUnlessUpLeftTie ==
    AlignReturned =>
        LET swapped == align(self, seq2, seq1)
        IN  /\ swapped[3] = result[3]
            /\ ~UpLeftTie(self, seq1, seq2, score_matrix) =>
                   swapped = <<result[2], result[1], result[3]>>

\* a gapped alignment of two different inputs, no up/left tie, swapped by
\* the swapped call
C9_Witness ==
    /\ AlignReturned
    /\ GapFree(seq1) /\ GapFree(seq2)
    /\ Len(seq1) = 1 /\ Len(seq2) = 2
    /\ ~UpLeftTie(self, seq1, seq2, score_matrix)
    /\ result[1] # result[2]
    /\ HasGap(result[1])
    /\ align(self, seq2, seq1) = <<result[2], result[1], result[3]>>

\* some interior cell has two candidates tied for its maximum
SomeTie(slf, s1, s2, S) ==
    \E r \in 1..Len(s1), c \in 1..Len(s2) :
        LET diagonal_score == S[r-1][c-1] + score_match_mismatch(slf, s1[r], s2[c])
            up_score == S[r-1][c] + slf.gap_penalty
            left_score == S[r][c-1] + slf.gap_penalty
        IN  \/ diagonal_score = S[r][c] /\ up_score = S[r][c]
            \/ diagonal_score = S[r][c] /\ left_score = S[r][c]
            \/ up_score = S[r][c] /\ left_score = S[r][c]

\* C10: a call that repeats the sequences of the call before it, on an
\* aligner with the same scoring parameters, returns the same aligned
\* strings and score; what a call returns is determined by the aligner's
\* parameters and the two sequences, whatever was called before; and no
\* call changes the engine's scoring parameters.
C10_Deterministic ==
    /\ engine = engine0
    /\ Returned /\ prev # NoResult => Triple(op, result) = prev
    /\ Returned =>
          Triple(op, result) =
              Triple("align_with_matrices", AlignBody(self, seq1, seq2))

\* the repeated call on inputs whose matrix has a tie returned what the
\* first call returned
C10_Witness ==
    /\ AlignReturned
    /\ GapFree(seq1) /\ GapFree(seq2)
    /\ prev # NoResult
    /\ Len(seq1) = 2 /\ Len(seq2) = 2
    /\ SomeTie(self, seq1, seq2, score_matrix)
    /\ result = prev

-----------------------------------------------------------------------------
(* Scoring policies: C11, C12, C13 *)

\* a direct _score_match_mismatch call has returned
Scored == pc = "scored"

\* C11 as stated: the flat policy compares case-insensitively: two symbols
\* that are equal after upper-casing score match_score, two symbols that
\* differ after upper-casing score mismatch_score.  The code compares the
\* symbols as they are, so "a" with "A" scores mismatch_score
C11_FlatCaseInsensitive ==
    (Scored /\ self.class = "NeedlemanWunsch")
        => result = IF Upper(score_char1) = Upper(score_char2)
                    THEN self.match_score
                    ELSE self.mismatch_score

\* the four nucleotides, upper case
Nucleotides == {"A", "T", "G", "C"}

\* the purines and the pyrimidines
TransitionClasses == {{"A", "G"}, {"C", "T"}}

\* C12: under the transition/transversion policy, over the symbols A, T, G,
\* C, a symbol with itself scores match_score, the two symbols of a purine
\* pair or of a pyrimidine pair score transition_penalty in either order,
\* every other pair of distinct symbols scores transversion_penalty, and the
\* score of (x, y) is the score of (y, x)
C12_TransitionTransversion ==
    (/\ Scored
     /\ self.class = "NeedlemanWunschAdvanced"
     /\ score_char1 \in Nucleotides
     /\ score_char2 \in Nucleotides)
        => /\ result = IF score_char1 = score_char2
                       THEN self.match_score
                       ELSE IF {score_char1, score_char2} \in TransitionClasses
                            THEN self.transition_penalty
                            ELSE self.transversion_penalty
           /\ result = score_match_mismatch(self, score_char2, score_char1)

\* the policy has scored G with A, the reverse of the pair the tests score,
\* as a transition, under parameters that tell the three outcomes apart
C12_Witness ==
    /\ Scored
    /\ self.class = "NeedlemanWunschAdvanced"
    /\ score_char1 = "G"
    /\ score_char2 = "A"
    /\ result = self.transition_penalty
    /\ self.transition_penalty # self.transversion_penalty
    /\ self.transition_penalty # self.match_score

\* C13 as stated: the transition/transversion policy is case-insensitive in
\* all three outcomes: over A, T, G, C in both cases the score of (x, y) is
\* the score of (upper(x), upper(y)).  The code tests char1 == char2 before
\* it upper-cases, so "a" with "A" scores transversion_penalty
C13_AdvancedCaseInsensitive ==
    (Scored /\ self.class = "NeedlemanWunschAdvanced")
        => result = score_match_mismatch(self, Upper(score_char1),
                                         Upper(score_char2))

-----------------------------------------------------------------------------
(* Worked examples and special inputs: C14, C15, C16 *)

\* C14: with match 1, mismatch -1, gap -2, align("WHY", "WHAT") returns
\* "WH-Y" over "WHAT" with score -1 (the diagonal move wins the tie at the
\* last cell, so the gap is not placed at the end as in "WHY-")
C14_WhyWhat ==
    (/\ AlignReturned
     /\ self = NeedlemanWunsch(1, -1, -2)
     /\ seq1 = WHY
     /\ seq2 = WHAT)
        => result = <<(<<"W", "H", "-", "Y">>), WHAT, -1>>

\* the example has returned, and at its last cell the diagonal and the left
\* candidate were both the maximum
C14_Witness ==
    /\ AlignReturned
    /\ self = NeedlemanWunsch(1, -1, -2)
    /\ seq1 = WHY
    /\ seq2 = WHAT
    /\ result[3] = -1
    /\ score_matrix[3][4] = score_matrix[2][3] + self.mismatch_score
    /\ score_matrix[3][4] = score_matrix[3][3] + self.gap_penalty

\* the symbols occurring in a sequence
Symbols(s) == {s[k] : k \in 1..Len(s)}

\* C15: under the flat policy with match_score >= mismatch_score and
\* match_score >= 2 * gap_penalty, align(s, s) on a non-empty s returns s
\* itself twice (no gap marker is inserted) and the score Len(s) * match_score
C15_IdenticalInputs ==
    (/\ AlignReturned
     /\ self.class = "NeedlemanWunsch"
     /\ self.match_score >= self.mismatch_score
     /\ self.match_score >= 2 * self.gap_penalty
     /\ seq1 = seq2)
        => result = <<seq1, seq1, Len(seq1) * self.match_score>>

\* align has returned on twice the same sequence of two different symbols
C15_Witness ==
    /\ AlignReturned
    /\ self.class = "NeedlemanWunsch"
    /\ seq1 = seq2
    /\ GapFree(seq1)
    /\ Len(seq1) = 2
    /\ seq1[1] # seq1[2]
    /\ result = <<seq1, seq1, 2 * self.match_score>>

\* C16: under the flat policy with 2 * gap_penalty < mismatch_score, align on
\* two non-empty sequences of the same length n that share no symbol
\* returns the two sequences themselves (no gap marker is inserted) and the
\* score n * mismatch_score
C16_MismatchesOverGaps ==
    (/\ AlignReturned
     /\ self.class = "NeedlemanWunsch"
     /\ 2 * self.gap_penalty < self.mismatch_score
     /\ Len(seq1) = Len(seq2)
     /\ Symbols(seq1) \cap Symbols(seq2) = {})
        => result = <<seq1, seq2, Len(seq1) * self.mismatch_score>>

\* align has returned on two sequences of length two that share no symbol,
\* under parameters for which two gaps cost more than one mismatch
C16_Witness ==
    /\ AlignReturned
    /\ self.class = "NeedlemanWunsch"
    /\ 2 * self.gap_penalty < self.mismatch_score
    /\ Len(seq1) = 2
    /\ Len(seq2) = 2
    /\ GapFree(seq1)
    /\ GapFree(seq2)
    /\ Symbols(seq1) \cap Symbols(seq2) = {}
    /\ result = <<seq1, seq2, 2 * self.mismatch_score>>

-----------------------------------------------------------------------------
(* The fill: C17, C18, C19 *)

\* the fill loop is over and the matrices are those of the current call
MatricesFilled == pc \in {"filled", "trace", "done"}

\* the three candidates of interior cell (r, c), from the matrix as it is
DiagonalCandidate(r, c) ==
    score_matrix[r-1][c-1] + score_match_mismatch(self, seq1[r], seq2[c])

UpCandidate(r, c) == score_matrix[r-1][c] + self.gap_penalty

LeftCandidate(r, c) == score_matrix[r][c-1] + self.gap_penalty

CandidateMax(r, c) ==
    MaxOf({DiagonalCandidate(r, c), UpCandidate(r, c), LeftCandidate(r, c)})

\* C17: ties are broken diagonal first, then up, then left: once the matrix
\* is filled, every interior cell holds "D" whenever its diagonal candidate
\* is the maximum, "U" only when its up candidate is the maximum and the
\* diagonal one is smaller, "L" only when its left candidate is greater than
\* both others; and with match 1, mismatch -1, gap -1,
\* align("GCATGCT", "GATTACA") returns "GCA-TGCT" over "G-ATTACA"
C17_TieBreak ==
    /\ MatricesFilled =>
          \A r \in 1..Len(seq1), c \in 1..Len(seq2) :
              /\ DiagonalCandidate(r, c) = CandidateMax(r, c)
                    => traceback_matrix[r][c] = "D"
              /\ traceback_matrix[r][c] = "U"
                    => /\ UpCandidate(r, c) = CandidateMax(r, c)
                       /\ DiagonalCandidate(r, c) < CandidateMax(r, c)
              /\ traceback_matrix[r][c] = "L"
                    => /\ LeftCandidate(r, c) > DiagonalCandidate(r, c)
                       /\ LeftCandidate(r, c) > UpCandidate(r, c)
    /\ (/\ AlignReturned
        /\ self = NeedlemanWunsch(1, -1, -1)
        /\ seq1 = GCATGCT
        /\ seq2 = GATTACA)
          => /\ result[1] = <<"G", "C", "A", "-", "T", "G", "C", "T">>
             /\ result[2] = <<"G", "-", "A", "T", "T", "A", "C", "A">>

\* the GCATGCT / GATTACA example has returned, and its matrix has a cell
\* tagged "D" where the diagonal candidate ties with the up one, one where
\* it ties with the left one, and a cell tagged "U" where up ties with left
C17_Witness ==
    /\ AlignReturned
    /\ self = NeedlemanWunsch(1, -1, -1)
    /\ seq1 = GCATGCT
    /\ seq2 = GATTACA
    /\ result[1] = <<"G", "C", "A", "-", "T", "G", "C", "T">>
    /\ \E r \in 1..Len(seq1), c \in 1..Len(seq2) :
          /\ traceback_matrix[r][c] = "D"
          /\ DiagonalCandidate(r, c) = UpCandidate(r, c)
          /\ DiagonalCandidate(r, c) > LeftCandidate(r, c)
    /\ \E r \in 1..Len(seq1), c \in 1..Len(seq2) :
          /\ traceback_matrix[r][c] = "D"
          /\ DiagonalCandidate(r, c) = LeftCandidate(r, c)
    /\ \E r \in 1..Len(seq1), c \in 1..Len(seq2) :
          /\ traceback_matrix[r][c] = "U"
          /\ UpCandidate(r, c) = LeftCandidate(r, c)

\* interior cell (r, c) has been written by the fill loop of the current call
CellFilled(r, c) ==
    \/ MatricesFilled
    \/ pc = "fill" /\ (r < i \/ (r = i /\ c < j))

\* the score matrix the current call ends with
FinalScoreMatrix == run_needleman_wunsch(self, seq1, seq2).score_matrix

\* C18: every interior cell the fill loop has written holds the maximum of
\* its three candidates S[r-1][c-1] + score(seq1[r-1], seq2[c-1]),
\* S[r-1][c] + gap and S[r][c-1] + gap, and the three neighbours the loop
\* is about to read for cell (i, j) hold the values they have in the final
\* matrix (no cell is written after it has been read)
C18_Recurrence ==
    /\ \A r \in 1..Len(seq1), c \in 1..Len(seq2) :
          CellFilled(r, c) => score_matrix[r][c] = CandidateMax(r, c)
    /\ pc = "fill" =>
          LET final == FinalScoreMatrix
          IN  /\ score_matrix[i-1][j-1] = final[i-1][j-1]
              /\ score_matrix[i-1][j] = final[i-1][j]
              /\ score_matrix[i][j-1] = final[i][j-1]

\* the fill loop is about to compute the last cell of a 2 x 2 interior: its
\* three neighbours are cells the loop has written, with values the
\* initialisation did not give them
C18_Witness ==
    /\ pc = "fill"
    /\ i = 2
    /\ j = 2
    /\ GapFree(seq1)
    /\ GapFree(seq2)
    /\ score_matrix[1][1] = FinalScoreMatrix[1][1]
    /\ score_matrix[1][1] # 0
    /\ score_matrix[1][2] # 0
    /\ score_matrix[2][1] # 0
    /\ score_matrix[2][2] = 0

\* the two matrices are those the current call has created
MatricesAssigned == pc \in {"fill", "filled", "trace", "done"}

\* matrix M has rows 0..n of cells 0..m
HasShape(M, n, m) ==
    /\ DOMAIN M = 0..n
    /\ \A r \in 0..n : DOMAIN M[r] = 0..m

\* C19: from its creation by _initialize_score_matrix on, through the fill
\* and after it, the score matrix has Len(seq1) + 1 rows of Len(seq2) + 1
\* cells, cell (0, 0) is 0, cell (0, c) is c * gap_penalty and cell (r, 0)
\* is r * gap_penalty (the fill never changes row 0 or column 0), and the
\* traceback matrix has the same shape
C19_BaseCase ==
    MatricesAssigned =>
        /\ HasShape(score_matrix, Len(seq1), Len(seq2))
        /\ HasShape(traceback_matrix, Len(seq1), Len(seq2))
        /\ score_matrix[0][0] = 0
        /\ \A c \in 1..Len(seq2) : score_matrix[0][c] = c * self.gap_penalty
        /\ \A r \in 1..Len(seq1) : score_matrix[r][0] = r * self.gap_penalty

\* the fill of a 2 x 1 interior is over: the interior cells are written and
\* row 0 and column 0 hold the gap runs
C19_Witness ==
    /\ pc = "filled"
    /\ Len(seq1) = 2
    /\ Len(seq2) = 1
    /\ GapFree(seq1)
    /\ GapFree(seq2)
    /\ traceback_matrix[2][1] \in {"D", "U", "L"}
    /\ score_matrix[2][1] # 0
    /\ score_matrix[2][0] = 2 * self.gap_penalty
    /\ score_matrix[0][1] = self.gap_penalty
    /\ DOMAIN score_matrix = 0..2

-----------------------------------------------------------------------------
(* The traceback walk: C20 *)

\* the larger of two numbers
Larger(a, b) == IF a >= b THEN a ELSE b

\* the walk is at a position inside the matrix, and away from row 0 and
\* column 0 the cell it is about to read holds a direction tag
WalkInRange ==
    pc = "trace" =>
        /\ i \in 0..Len(seq1)
        /\ j \in 0..Len(seq2)
        /\ (i > 0 /\ j > 0) => traceback_matrix[i][j] \in {"D", "U", "L"}

\* one iteration of the traceback loop: it runs only away from (0, 0),
\* lowers i + j by 1 or 2 without raising i or j, appends one column, and
\* is the LEFT move in row 0 and the UP move in column 0
WalkStep ==
    (pc = "trace" /\ pc' = "trace") =>
        /\ i > 0 \/ j > 0
        /\ i' + j' \in {i + j - 1, i + j - 2}
        /\ i' \in 0..i
        /\ j' \in 0..j
        /\ Len(seq1_aligned') = Len(seq1_aligned) + 1
        /\ Len(seq2_aligned') = Len(seq2_aligned) + 1
        /\ i = 0 => /\ i' = 0
                    /\ j' = j - 1
                    /\ seq1_aligned' = Append(seq1_aligned, "-")
        /\ (i > 0 /\ j = 0) => /\ i' = i - 1
                                /\ j' = 0
                                /\ seq2_aligned' = Append(seq2_aligned, "-")

\* the loop is left at (0, 0) only, after no fewer iterations than the
\* longer input has symbols and no more than both inputs have together
WalkEnd ==
    (pc = "trace" /\ pc' = "done") =>
        /\ i = 0
        /\ j = 0
        /\ Len(seq1_aligned) >= Larger(Len(seq1), Len(seq2))
        /\ Len(seq1_aligned) <= Len(seq1) + Len(seq2)

\* C20: the traceback walk from (Len(seq1), Len(seq2)) stays inside the
\* matrix, never reads a cell without a direction tag, lowers i + j by 1 or
\* 2 at every iteration, moves LEFT in row 0 and UP in column 0, and stops
\* exactly at (0, 0), after at least max(n, m) and at most n + m iterations
C20_Traceback == []WalkInRange /\ [][WalkStep /\ WalkEnd]_vars

\* a walk over two sequences of two symbols has reached (0, 0) in three
\* iterations, the last of them a forced LEFT move in row 0
C20_Witness ==
    /\ pc = "trace"
    /\ i = 0
    /\ j = 0
    /\ Len(seq1) = 2
    /\ Len(seq2) = 2
    /\ GapFree(seq1)
    /\ GapFree(seq2)
    /\ Len(seq1_aligned) = 3
    /\ seq1_aligned[3] = "-"

-----------------------------------------------------------------------------
(* The columns of the returned alignment: C21 *)

\* the two aligned strings of the value a call returned
ReturnedAligned1 == IF op = "align" THEN result[1] ELSE result.seq1_aligned

ReturnedAligned2 == IF op = "align" THEN result[2] ELSE result.seq2_aligned

\* C21: for non-empty inputs that hold no gap marker of their own, no column
\* of the returned alignment is a gap over a gap (every column consumes a
\* symbol of seq1, of seq2 or of both), and the symbols of each returned
\* string, gaps left out, are those of its input in the same order
C21_NoGapOverGap ==
    (/\ Returned
     /\ seq1 # <<>>
     /\ seq2 # <<>>
     /\ GapFree(seq1)
     /\ GapFree(seq2))
        => /\ Len(ReturnedAligned1) = Len(ReturnedAligned2)
           /\ \A k \in 1..Len(ReturnedAligned1) :
                 ~(ReturnedAligned1[k] = "-" /\ ReturnedAligned2[k] = "-")
           /\ StripGaps(ReturnedAligned1) = seq1
           /\ StripGaps(ReturnedAligned2) = seq2

\* a call on two gap-free sequences of two symbols has returned three
\* columns: a gap over a symbol, a pair, and a symbol over a gap
C21_Witness ==
    /\ Returned
    /\ GapFree(seq1)
    /\ GapFree(seq2)
    /\ Len(seq1) = 2
    /\ Len(seq2) = 2
    /\ Len(ReturnedAligned1) = 3
    /\ ReturnedAligned1[1] = "-" /\ ReturnedAligned2[1] # "-"
    /\ ReturnedAligned1[2] # "-" /\ ReturnedAligned2[2] # "-"
    /\ ReturnedAligned1[3] # "-" /\ ReturnedAligned2[3] = "-"

=============================================================================
